---- MODULE Spec2Model ----
(***************************************************************************)
(* Model of the downloader in src/main.rs: resolve the output path, GET    *)
(* the URL, stream the body to disk, write <directory>/ModelFile, locate   *)
(* `ollama` on PATH and run it.                                            *)
(*                                                                         *)
(* Text (String, OsString, file content) is a sequence of tokens; a token  *)
(* is one character ("/", ".", ":", "a", ...) or one literal that the      *)
(* program never looks inside ("FROM ", "ModelFile", "ollama", ...).       *)
(* A path is a sequence of components, each component a text.              *)
(* Option<T> / Result<T, E> are the tuples <<>> (None / Err) and <<v>>.    *)
(***************************************************************************)
EXTENDS Integers, Sequences, FiniteSets, TLC

VARIABLES
    pc,          \* position of main (or of a function harness)
    args,        \* Args: url, directory, filename
    env_path,    \* Option<text>: the PATH environment variable
    env_dirs,    \* history: the directory list PATH was built from
    fs,          \* the file system: canonical path -> entry
    fs0,         \* history: the file system when the run started
    file_name,   \* Option<text>: chosen file name
    out_path,    \* path: args.directory.join(file_name)
    resp,        \* the HTTP response of the GET
    pb,          \* ProgressBar: [len, pos]
    idx,         \* number of chunks taken from the stream
    model_file,  \* path of the descriptor
    ollama_exec, \* Option<path>: result of which("ollama")
    gets,        \* history: number of GET requests issued
    writes,      \* history: set of [path, by] : who created/wrote a path
    desc_writes, \* history: number of write_to_file calls
    tool_calls,  \* history: sequence of subprocess invocations
    flushed,     \* whether the output file handle has been flushed
    phases,      \* history: the phases main has entered, in order
    exit_code    \* Option<Int>: process exit code once main has returned

vars == <<pc, args, env_path, env_dirs, fs, fs0, file_name, out_path, resp,
          pb, idx, model_file, ollama_exec, gets, writes, desc_writes,
          tool_calls, flushed, phases, exit_code>>

-----------------------------------------------------------------------------
\* Bounds of the model
MaxChunks == 2
MaxUrlPath == 5
MaxPathDirs == 2
MaxClock == 1

-----------------------------------------------------------------------------
\* Option / Result
None == <<>>
Some(v) == <<v>>
IsSome(o) == Len(o) = 1
IsNone(o) == Len(o) = 0
Unwrap(o) == o[1]

Front(s) == SubSeq(s, 1, Len(s) - 1)
Last(s) == s[Len(s)]

RECURSIVE Flatten(_)
Flatten(ss) == IF Len(ss) = 0 THEN <<>> ELSE ss[1] \o Flatten(Tail(ss))

\* str::split(sep): the pieces between separators, empty pieces kept
RECURSIVE Split(_, _)
Split(s, sep) ==
    IF Len(s) = 0 THEN << <<>> >>
    ELSE LET rest == Split(Tail(s), sep) IN
         IF s[1] = sep THEN << <<>> >> \o rest
         ELSE << <<s[1]>> \o rest[1] >> \o Tail(rest)

PATH_SEP == ":"

-----------------------------------------------------------------------------
\* Paths
Root == <<"/">>
Dot == <<".">>
CWD == <<Root, <<"w">>>>

IsAbsolute(p) == Len(p) > 0 /\ p[1] = Root

\* Path::new(text): components between "/" (empty ones dropped)
PathOf(text) ==
    LET comps == SelectSeq(Split(text, "/"), LAMBDA c : Len(c) > 0) IN
    IF Len(text) > 0 /\ text[1] = "/" THEN <<Root>> \o comps ELSE comps

\* Path::join: an absolute right-hand side replaces the base
Join(base, rel) == IF IsAbsolute(rel) THEN rel ELSE base \o rel

RECURSIVE DisplayRel(_)
DisplayRel(p) ==
    IF Len(p) = 0 THEN <<>>
    ELSE IF Len(p) = 1 THEN p[1]
    ELSE p[1] \o <<"/">> \o DisplayRel(Tail(p))

\* Path::display().to_string()
Display(p) == IF IsAbsolute(p) THEN <<"/">> \o DisplayRel(Tail(p)) ELSE DisplayRel(p)

\* The absolute path the OS resolves p to (Path::canonicalize)
Canon(p) ==
    LET abs == IF IsAbsolute(p) THEN p ELSE CWD \o p IN
    SelectSeq(abs, LAMBDA c : c # Dot)

Parent(p) == Front(p)

-----------------------------------------------------------------------------
\* File system
DirEntry == [kind |-> "dir", data |-> <<>>]
FileEntry(d) == [kind |-> "file", data |-> d]

Put(f, k, v) == [x \in (DOMAIN f) \cup {k} |-> IF x = k THEN v ELSE f[x]]

IsFile(f, p) == Canon(p) \in DOMAIN f /\ f[Canon(p)].kind = "file"
IsDir(f, p) == Canon(p) = <<Root>> \/ (Canon(p) \in DOMAIN f /\ f[Canon(p)].kind = "dir")

Prefixes(p) == {SubSeq(p, 1, i) : i \in 2..Len(p)}

\* fs::create_dir_all
CreateDirAllOk(f, p) == \A q \in Prefixes(Canon(p)) : q \notin DOMAIN f \/ f[q].kind = "dir"
CreateDirAll(f, p) ==
    [x \in (DOMAIN f) \cup Prefixes(Canon(p)) |-> IF x \in DOMAIN f THEN f[x] ELSE DirEntry]

\* open with create + truncate
CanCreate(f, p) ==
    /\ Len(Canon(p)) > 1
    /\ IsDir(f, Parent(Canon(p)))
    /\ Canon(p) \notin DOMAIN f \/ f[Canon(p)].kind = "file"
CreateTrunc(f, p) == Put(f, Canon(p), FileEntry(<<>>))
AppendData(f, p, d) == Put(f, Canon(p), FileEntry(f[Canon(p)].data \o d))

-----------------------------------------------------------------------------
\* URLs.  A URL is [kind, path]: kind "invalid" does not parse, kind "opaque"
\* parses but cannot be a base (mailto:, data:), kind "hier" has the raw path
\* text `path` (empty, or starting with "/").
DOT_DOT == <<".", ".">>

\* url::Url::parse on the path: "." and ".." segments are resolved away
RECURSIVE RemoveDotSegments(_, _)
RemoveDotSegments(segs, acc) ==
    IF Len(segs) = 0 THEN acc
    ELSE LET seg == segs[1]
             last == Len(segs) = 1
         IN  IF seg = DOT_DOT
             THEN RemoveDotSegments(Tail(segs),
                      (IF Len(acc) > 0 THEN Front(acc) ELSE acc)
                          \o (IF last THEN << <<>> >> ELSE <<>>))
             ELSE IF seg = Dot
             THEN RemoveDotSegments(Tail(segs), acc \o (IF last THEN << <<>> >> ELSE <<>>))
             ELSE RemoveDotSegments(Tail(segs), acc \o <<seg>>)

\* parsed.path_segments().map_or(Vec::new(), |s| s.collect())
PathSegments(url) ==
    IF url.kind = "opaque" THEN <<>>
    ELSE LET raw == IF Len(url.path) = 0 THEN <<"/">> ELSE url.path IN
         RemoveDotSegments(Split(Tail(raw), "/"), <<>>)

\* str::contains('.')
ContainsDot(s) == \E i \in 1..Len(s) : s[i] = "."

\* Mutant: the last segment that contains a dot, skipping undotted ones
RECURSIVE FindLastDotted(_)
FindLastDotted(segs) ==
    IF Len(segs) = 0 THEN None
    ELSE IF ContainsDot(Last(segs)) THEN Some(Last(segs))
    ELSE FindLastDotted(Front(segs))

\* segments.iter().rev().find(|s| !s.is_empty())
RECURSIVE FindLastNonEmpty(_)
FindLastNonEmpty(segs) ==
    IF Len(segs) = 0 THEN None
    ELSE IF Len(Last(segs)) > 0 THEN Some(Last(segs))
    ELSE FindLastNonEmpty(Front(segs))

\* chrono::Utc::now().format("%Y%m%d_%H%M%S") for the clock values of the model
Timestamps == <<"19700101_000000", "19700101_000001", "19700101_000002">>
FormatTimestamp(now) == Timestamps[now + 1]
Clock == 0..MaxClock

FallbackName(now) == <<"download_", FormatTimestamp(now), ".bin">>

\* derive_filename_from_url: Result<String, _>
derive_filename_from_url(url, now) ==
    IF url.kind = "invalid" THEN None
    ELSE LET found == FindLastNonEmpty(PathSegments(url)) IN
         IF IsSome(found) /\ ContainsDot(Unwrap(found))
         THEN Some(Unwrap(found))
         ELSE Some(FallbackName(now))

-----------------------------------------------------------------------------
\* Mutant: any existing entry matches, not only a regular file
RECURSIVE FindMapExists(_, _, _)
FindMapExists(dirs, f, cmd) ==
    IF Len(dirs) = 0 THEN None
    ELSE LET candidate == Join(PathOf(dirs[1]), <<cmd>>) IN
         IF Canon(candidate) \in DOMAIN f THEN Some(candidate)
         ELSE FindMapExists(Tail(dirs), f, cmd)

\* which(cmd): Option<path>
RECURSIVE FindMap(_, _, _)
FindMap(dirs, f, cmd) ==
    IF Len(dirs) = 0 THEN None
    ELSE LET candidate == Join(PathOf(dirs[1]), <<cmd>>) IN
         IF IsFile(f, candidate) THEN Some(candidate)
         ELSE FindMap(Tail(dirs), f, cmd)

which(path_var, f, cmd) ==
    IF IsNone(path_var) THEN None
    ELSE FindMap(Split(Unwrap(path_var), PATH_SEP), f, cmd)

-----------------------------------------------------------------------------
\* write_to_file(target_path, content): the file system afterwards and the
\* io::Result.  `fault` is the step at which the environment fails, if any.
WriteFaults == {"none", "mkdir", "open", "write", "late"}

write_to_file(f, target, content, fault) ==
    LET parent == Parent(target)
        f1 == CreateDirAll(f, parent)
    IN  IF fault = "mkdir" \/ ~CreateDirAllOk(f, parent)
        THEN [fs |-> f, opened |-> FALSE, result |-> None]
        ELSE IF fault = "open" \/ ~CanCreate(f1, target)
        THEN [fs |-> f1, opened |-> FALSE, result |-> None]
        ELSE IF fault = "write"
        THEN [fs |-> CreateTrunc(f1, target), opened |-> TRUE, result |-> None]
        ELSE IF fault = "late"
        THEN [fs |-> AppendData(CreateTrunc(f1, target), target, content),
              opened |-> TRUE, result |-> None]
        ELSE [fs |-> AppendData(CreateTrunc(f1, target), target, content),
              opened |-> TRUE, result |-> Some(Canon(target))]

-----------------------------------------------------------------------------
\* Inputs
ModelFileName == <<"ModelFile">>
OllamaName == <<"ollama">>
FromPrefix == <<"FROM ">>

Url(kind, path) == [kind |-> kind, path |-> path]
UrlChars == {"/", "a", "."}
RawPaths == {<<>>} \cup
    {<<"/">> \o t : t \in UNION {[1..n -> UrlChars] : n \in 0..MaxUrlPath}}
AllUrls == {Url("invalid", <<>>), Url("opaque", <<>>)} \cup {Url("hier", p) : p \in RawPaths}

MainUrls == {Url("invalid", <<>>), Url("hier", <<"/">>),
             Url("hier", <<"/", "a", ".", "b">>), Url("hier", <<"/", "a", ".", "b", "/", "a">>)}
Directories == {<<Dot>>, << <<"d">> >>, <<Root, <<"o">>>>}
Filenames == {<<"m", ".", "b">>, ModelFileName}
MainArgs ==
    {[url |-> u, directory |-> d, filename |-> None] : u \in MainUrls, d \in Directories}
    \cup {[url |-> Url("hier", <<"/", "a", ".", "b">>), directory |-> d, filename |-> Some(n)] :
             d \in Directories, n \in Filenames}

Chunks == {<<>>, <<"x">>, <<"y", "x">>}
Bodies == UNION {[1..n -> Chunks] : n \in 0..MaxChunks}
Total(chunks) == Len(Flatten(chunks))

NoResponse == [neterr |-> FALSE, status |-> 0, content_length |-> None,
               chunks |-> <<>>, err |-> FALSE]
Responses ==
    {[neterr |-> TRUE, status |-> 0, content_length |-> None, chunks |-> <<>>, err |-> FALSE],
     [neterr |-> FALSE, status |-> 404, content_length |-> None, chunks |-> <<>>, err |-> FALSE]}
    \cup UNION {{[neterr |-> FALSE, status |-> 200, content_length |-> cl, chunks |-> cs,
                  err |-> e] :
                    cl \in {None, Some(Total(cs)), Some(Total(cs) + 1)}, e \in BOOLEAN} :
                cs \in Bodies}

\* Mutant: only server errors are rejected
is_success_lax(status) == status >= 200 /\ status < 500

\* StatusCode::is_success
is_success(status) == status >= 200 /\ status < 300

MkFs(entries) == [p \in {e[1] : e \in entries} |-> (CHOOSE e \in entries : e[1] = p)[2]]

OldData == <<"z">>
BaseEntries == {<<CWD, DirEntry>>}
OldEntries == BaseEntries \cup
    {<<CWD \o << <<"d">> >>, DirEntry>>, <<<<Root, <<"o">>>>, DirEntry>>,
     <<CWD \o <<<<"m", ".", "b">>>>, FileEntry(OldData)>>,
     <<CWD \o <<<<"a", ".", "b">>>>, FileEntry(OldData)>>,
     <<CWD \o <<ModelFileName>>, FileEntry(OldData)>>,
     <<CWD \o << <<"d">>, <<"m", ".", "b">> >>, FileEntry(OldData)>>,
     <<<<Root, <<"o">>, <<"m", ".", "b">>>>, FileEntry(OldData)>>}
BinDir == <<Root, <<"b">>>>
OptDir == <<Root, <<"o">>>>
ToolConfigs ==
    {{},
     {<<BinDir, DirEntry>>, <<BinDir \o <<OllamaName>>, FileEntry(<<"#">>)>>},
     {<<BinDir, DirEntry>>, <<BinDir \o <<OllamaName>>, DirEntry>>,
      <<OptDir, DirEntry>>, <<OptDir \o <<OllamaName>>, FileEntry(<<"#">>)>>}}
MainFileSystems == {MkFs(b \cup t) : b \in {BaseEntries, OldEntries}, t \in ToolConfigs}

\* the PATH text of a list of directory texts
RECURSIVE JoinSep(_)
JoinSep(dirs) ==
    IF Len(dirs) = 1 THEN dirs[1] ELSE dirs[1] \o <<PATH_SEP>> \o JoinSep(Tail(dirs))
EnvOf(dirs) == IF IsNone(dirs) THEN None ELSE Some(JoinSep(Unwrap(dirs)))

MainEnvDirs == {None, Some(<< <<"/", "b">>, <<"/", "o">> >>)}

WhichDirs == {<<"/", "b">>, <<"/", "o">>, <<>>}
WhichEnvDirs == {None} \cup
    {Some(ds) : ds \in UNION {[1..n -> WhichDirs] : n \in 1..MaxPathDirs}}
Kinds == {"absent", "file", "dir"}
EntryOf(path, kind) ==
    IF kind = "absent" THEN {}
    ELSE {<<path, IF kind = "dir" THEN DirEntry ELSE FileEntry(<<"#">>)>>}
WhichFileSystems ==
    {MkFs({<<CWD, DirEntry>>, <<BinDir, DirEntry>>, <<OptDir, DirEntry>>}
          \cup EntryOf(BinDir \o <<OllamaName>>, kb)
          \cup EntryOf(OptDir \o <<OllamaName>>, ko)
          \cup EntryOf(CWD \o <<OllamaName>>, kw)) :
        kb \in Kinds, ko \in Kinds, kw \in Kinds}

-----------------------------------------------------------------------------
\* The state after Args::parse
Idle ==
    /\ file_name = None
    /\ out_path = <<>>
    /\ resp = NoResponse
    /\ pb = [len |-> None, pos |-> 0]
    /\ idx = 0
    /\ model_file = <<>>
    /\ ollama_exec = None
    /\ gets = 0
    /\ writes = {}
    /\ desc_writes = 0
    /\ tool_calls = <<>>
    /\ flushed = FALSE
    /\ phases = <<>>
    /\ exit_code = None

Init ==
    /\ pc = "start"
    /\ args \in MainArgs
    /\ env_dirs \in MainEnvDirs
    /\ env_path = EnvOf(env_dirs)
    /\ fs \in MainFileSystems
    /\ fs0 = fs
    /\ Idle

\* main returns Err(..): the process exits with a non-zero code
Abort ==
    /\ pc' = "exit"
    /\ exit_code' = Some(1)

\* main returns Ok(())
Return ==
    /\ pc' = "exit"
    /\ exit_code' = Some(0)

\* lines 57-62: create the directory, choose the file name, join
Resolve ==
    /\ pc = "start"
    /\ phases' = Append(phases, "resolve")
    /\ \E io_ok \in BOOLEAN, now \in Clock :
         IF ~(io_ok /\ CreateDirAllOk(fs, args.directory))
         THEN /\ Abort
              /\ UNCHANGED <<fs, file_name, out_path>>
         ELSE LET name == IF IsSome(args.filename) THEN args.filename
                          ELSE derive_filename_from_url(args.url, now)
              IN  /\ fs' = CreateDirAll(fs, args.directory)
                  /\ IF IsNone(name)
                     THEN /\ Abort
                          /\ UNCHANGED <<file_name, out_path>>
                     ELSE /\ file_name' = name
                          /\ out_path' = Join(args.directory, PathOf(Unwrap(name)))
                          /\ pc' = "resolved"
                          /\ UNCHANGED exit_code
    /\ UNCHANGED <<flushed, args, env_path, env_dirs, fs0, resp, pb, idx, model_file, ollama_exec,
                   gets, writes, desc_writes, tool_calls>>

\* lines 67-89: the GET, the status check, the progress bar
Get ==
    /\ pc = "resolved"
    /\ phases' = Append(phases, "fetch")
    /\ gets' = gets + 1
    /\ \E r \in Responses :
         /\ resp' = r
         /\ IF r.neterr \/ ~is_success(r.status)
            THEN /\ Abort
                 /\ UNCHANGED pb
            ELSE /\ pb' = [len |-> r.content_length, pos |-> 0]
                 /\ pc' = "fetched"
                 /\ UNCHANGED exit_code
    /\ UNCHANGED <<flushed, args, env_path, env_dirs, fs, fs0, file_name, out_path, idx, model_file,
                   ollama_exec, writes, desc_writes, tool_calls>>

\* lines 94-95: File::create(&out_path)
CreateFile ==
    /\ pc = "fetched"
    /\ \E io_ok \in BOOLEAN :
         IF io_ok /\ CanCreate(fs, out_path)
         THEN /\ fs' = CreateTrunc(fs, out_path)
              /\ writes' = writes \cup {[path |-> Canon(out_path), by |-> "fetcher"]}
              /\ pc' = "streaming"
              /\ UNCHANGED exit_code
         ELSE /\ Abort
              /\ UNCHANGED <<fs, writes>>
    /\ UNCHANGED <<flushed, args, env_path, env_dirs, fs0, file_name, out_path, resp, pb, idx,
                   model_file, ollama_exec, gets, desc_writes, tool_calls, phases>>

\* Mutant: the bytes are put in front of the file's content
write_all_front(f, p, data, n) ==
    Put(f, Canon(p), FileEntry(SubSeq(data, 1, n) \o f[Canon(p)].data))

\* file.write_all(&data): n bytes reach the file; n < Len(data) is an error
write_all(f, p, data, n) == AppendData(f, p, SubSeq(data, 1, n))

\* Mutant: progress counts chunks instead of bytes
inc_one(bar, delta) == [bar EXCEPT !.pos = @ + 1]

\* pb.inc(delta)
inc(bar, delta) == [bar EXCEPT !.pos = @ + delta]

\* lines 96-99: one iteration of the loop on a chunk that arrived
NextChunk ==
    /\ pc = "streaming"
    /\ idx < Len(resp.chunks)
    /\ LET data == resp.chunks[idx + 1] IN
       \E n \in 0..Len(data) :
         /\ fs' = write_all(fs, out_path, data, n)
         /\ IF n = Len(data)
            THEN /\ pb' = inc(pb, Len(data))
                 /\ idx' = idx + 1
                 /\ UNCHANGED <<pc, exit_code>>
            ELSE /\ Abort
                 /\ UNCHANGED <<pb, idx>>
    /\ UNCHANGED <<flushed, args, env_path, env_dirs, fs0, file_name, out_path, resp, model_file,
                   ollama_exec, gets, writes, desc_writes, tool_calls, phases>>

\* Mutant: a transport error is taken for the end of the stream
StreamErrorSwallowed ==
    /\ pc = "streaming"
    /\ idx = Len(resp.chunks)
    /\ resp.err
    /\ pc' = "downloaded"
    /\ UNCHANGED <<flushed, args, env_path, env_dirs, fs, fs0, file_name, out_path, resp, pb,
                   idx, model_file, ollama_exec, gets, writes, desc_writes, tool_calls,
                   phases, exit_code>>

\* lines 96-97: the stream yields a transport error
StreamError ==
    /\ pc = "streaming"
    /\ idx = Len(resp.chunks)
    /\ resp.err
    /\ Abort
    /\ UNCHANGED <<flushed, args, env_path, env_dirs, fs, fs0, file_name, out_path, resp, pb, idx,
                   model_file, ollama_exec, gets, writes, desc_writes, tool_calls, phases>>

\* lines 96, 101-107: the stream ends, flush, report
Finish ==
    /\ pc = "streaming"
    /\ idx = Len(resp.chunks)
    /\ ~resp.err
    /\ \E flush_ok \in BOOLEAN, out_ok \in BOOLEAN :
         /\ flushed' = flush_ok
         /\ IF flush_ok /\ out_ok
            THEN /\ pc' = "downloaded"
                 /\ UNCHANGED exit_code
            ELSE Abort
    /\ UNCHANGED <<args, env_path, env_dirs, fs, fs0, file_name, out_path, resp, pb, idx,
                   model_file, ollama_exec, gets, writes, desc_writes, tool_calls, phases>>

\* line 102 and 111: format!("FROM {}", out_path.display())
DescriptorContent(path) == FromPrefix \o Display(path)

\* line 110: Path::new(&args.directory).join("ModelFile")
ModelFilePath(directory) == Join(directory, <<ModelFileName>>)

\* lines 110-115: write the descriptor, report
WriteDescriptor ==
    /\ pc = "downloaded"
    /\ phases' = Append(phases, "descriptor")
    /\ desc_writes' = desc_writes + 1
    /\ model_file' = ModelFilePath(args.directory)
    /\ \E fault \in WriteFaults, out_ok \in BOOLEAN :
         LET w == write_to_file(fs, model_file', DescriptorContent(out_path), fault) IN
         /\ fs' = w.fs
         /\ writes' = IF w.opened
                      THEN writes \cup {[path |-> Canon(model_file'), by |-> "descriptor"]}
                      ELSE writes
         /\ IF IsSome(w.result) /\ out_ok
            THEN /\ pc' = "described"
                 /\ UNCHANGED exit_code
            ELSE Abort
    /\ UNCHANGED <<flushed, args, env_path, env_dirs, fs0, file_name, out_path, resp, pb, idx,
                   ollama_exec, gets, tool_calls>>

\* lines 118-122: which("ollama"), warn and return, or announce the install
LocateTool ==
    /\ pc = "described"
    /\ phases' = Append(phases, "tool")
    /\ ollama_exec' = which(env_path, fs, OllamaName)
    /\ \E out_ok \in BOOLEAN :
         IF ~out_ok THEN Abort
         ELSE IF IsNone(ollama_exec') THEN Return
         ELSE /\ pc' = "installing"
              /\ UNCHANGED exit_code
    /\ UNCHANGED <<flushed, args, env_path, env_dirs, fs, fs0, file_name, out_path, resp, pb, idx,
                   model_file, gets, writes, desc_writes, tool_calls>>

ToolOutcomes == {"spawn_err", "nonzero", "success"}

\* Mutant: the descriptor is passed without the -f flag
ToolCommandNoFlag(exec, descriptor) ==
    [program |-> Display(exec), args |-> <<Display(descriptor)>>]

\* lines 124-127: Command::new(ollama_exec).arg("-f").arg(model_file)
ToolCommand(exec, descriptor) ==
    [program |-> Display(exec), args |-> << <<"-f">>, Display(descriptor) >>]

\* lines 124-144: run the tool, report its outcome, return Ok(())
RunTool ==
    /\ pc = "installing"
    /\ \E outcome \in ToolOutcomes, out_ok \in BOOLEAN :
         /\ tool_calls' = Append(tool_calls,
                [cmd |-> ToolCommand(Unwrap(ollama_exec), model_file), outcome |-> outcome])
         /\ IF out_ok THEN Return ELSE Abort
    /\ UNCHANGED <<flushed, args, env_path, env_dirs, fs, fs0, file_name, out_path, resp, pb, idx,
                   model_file, ollama_exec, gets, writes, desc_writes, phases>>

Next ==
    \/ Resolve
    \/ Get
    \/ CreateFile
    \/ NextChunk
    \/ StreamError
    \/ Finish
    \/ WriteDescriptor
    \/ LocateTool
    \/ RunTool

Spec == Init /\ [][Next]_vars

-----------------------------------------------------------------------------
\* derive_filename_from_url applied to every URL of the bounded set
InitDerive ==
    /\ pc = "derive_call"
    /\ args \in {[url |-> u, directory |-> <<Dot>>, filename |-> None] : u \in AllUrls}
    /\ env_dirs = None
    /\ env_path = None
    /\ fs = MkFs(BaseEntries)
    /\ fs0 = fs
    /\ Idle

DeriveStep ==
    /\ pc = "derive_call"
    /\ \E now \in Clock : file_name' = derive_filename_from_url(args.url, now)
    /\ pc' = "derive_ret"
    /\ UNCHANGED <<flushed, args, env_path, env_dirs, fs, fs0, out_path, resp, pb, idx, model_file,
                   ollama_exec, gets, writes, desc_writes, tool_calls, phases, exit_code>>

NextDerive == DeriveStep

SpecDerive == InitDerive /\ [][NextDerive]_vars

\* which("ollama") applied to every PATH and file system of the bounded sets
InitWhich ==
    /\ pc = "which_call"
    /\ args = [url |-> Url("invalid", <<>>), directory |-> <<Dot>>, filename |-> None]
    /\ env_dirs \in WhichEnvDirs
    /\ env_path = EnvOf(env_dirs)
    /\ fs \in WhichFileSystems
    /\ fs0 = fs
    /\ Idle

WhichStep ==
    /\ pc = "which_call"
    /\ ollama_exec' = which(env_path, fs, OllamaName)
    /\ pc' = "which_ret"
    /\ UNCHANGED <<flushed, args, env_path, env_dirs, fs, fs0, file_name, out_path, resp, pb, idx,
                   model_file, gets, writes, desc_writes, tool_calls, phases, exit_code>>

NextWhich == WhichStep

SpecWhich == InitWhich /\ [][NextWhich]_vars

-----------------------------------------------------------------------------
\* Properties

Range(seq) == {seq[i] : i \in 1..Len(seq)}
IsPrefix(a, b) == Len(a) <= Len(b) /\ SubSeq(b, 1, Len(a)) = a
DataAt(f, p) == f[Canon(p)].data
SamePath(f, g, p) ==
    /\ (Canon(p) \in DOMAIN f) = (Canon(p) \in DOMAIN g)
    /\ Canon(p) \in DOMAIN f => f[Canon(p)] = g[Canon(p)]
FetcherCreated == [path |-> Canon(out_path), by |-> "fetcher"] \in writes
Succeeded == pc = "exit" /\ exit_code = Some(0)
Failed == pc = "exit" /\ exit_code = Some(1)

\* C1: whenever the descriptor step has completed, <directory>/ModelFile holds
\* exactly "FROM " followed by the canonical absolute path of the downloaded file.
C1_DescriptorNamesCanonicalPath ==
    pc = "described" =>
        DataAt(fs, model_file) = FromPrefix \o Display(Canon(out_path))

\* C2: after the write loop and the flush, the output file holds the
\* concatenation of the chunks in arrival order, whatever it held before.
C2_FileIsBody ==
    pc = "downloaded" =>
        /\ IsFile(fs, out_path)
        /\ DataAt(fs, out_path) = Flatten(resp.chunks)

C2_Witness ==
    /\ pc = "downloaded"
    /\ Len(resp.chunks) = 2
    /\ resp.chunks[1] = <<"x">>
    /\ resp.chunks[2] = <<"y", "x">>
    /\ Canon(out_path) \in DOMAIN fs0
    /\ fs0[Canon(out_path)] = FileEntry(OldData)

\* C3: once the tool step has been entered (the descriptor is written), the run
\* ends with exit code 0 and the descriptor is on disk, whatever the tool step meets.
C3_ToolStepExitsZero ==
    (pc = "exit" /\ "tool" \in Range(phases)) =>
        /\ exit_code = Some(0)
        /\ IsFile(fs, model_file)

\* C4: a response whose status is not a success aborts the run with a non-zero
\* exit; the output path and the descriptor path are as they were before the
\* run, nothing was written and the tool was not invoked.
C4_BadStatusWritesNothing ==
    (gets = 1 /\ ~resp.neterr /\ ~(resp.status >= 200 /\ resp.status < 300)) =>
        /\ Failed
        /\ SamePath(fs, fs0, out_path)
        /\ SamePath(fs, fs0, ModelFilePath(args.directory))
        /\ writes = {}
        /\ desc_writes = 0
        /\ tool_calls = <<>>
        /\ phases = <<"resolve", "fetch">>

C4_Witness ==
    /\ gets = 1
    /\ resp.status = 404
    /\ Failed
    /\ Canon(out_path) \in DOMAIN fs
    /\ fs[Canon(out_path)] = FileEntry(OldData)

\* C5: without an explicit filename the derived name is the last non-empty path
\* segment when that segment contains a dot, and download_<timestamp>.bin for
\* every other parseable URL; an earlier dotted segment is never chosen.
C5_DerivedName ==
    (pc = "derive_ret" /\ args.url.kind # "invalid") =>
        LET segs == PathSegments(args.url)
            filled == {i \in 1..Len(segs) : Len(segs[i]) > 0}
            last == CHOOSE i \in filled : \A j \in filled : j <= i
        IN  IF filled # {} /\ "." \in Range(segs[last])
            THEN file_name = Some(segs[last])
            ELSE file_name \in {Some(<<"download_", Timestamps[t + 1], ".bin">>) : t \in Clock}

C5_Witness ==
    /\ pc = "derive_ret"
    /\ args.url = Url("hier", <<"/", "a", ".", "a", "/", "a">>)
    /\ file_name = Some(<<"download_", "19700101_000001", ".bin">>)

\* C6: the output file's path is created and written by the streaming fetcher
\* only, so a successful run ends with the downloaded body in the output file.
C6_OnlyFetcherWritesOutput ==
    /\ \A w \in writes : w.path = Canon(out_path) => w.by = "fetcher"
    /\ Succeeded => DataAt(fs, out_path) = Flatten(resp.chunks)

\* C7: in determinate mode the progress position is the number of bytes written
\* to the output file so far; when the declared length N is the body's total and
\* the chunks are non-empty, the position is below N until the last chunk has
\* been written and is N from then on.
C7_ProgressIsBytesWritten ==
    (pc \in {"streaming", "downloaded"} /\ IsSome(pb.len)) =>
        /\ pb.pos = Len(DataAt(fs, out_path))
        /\ (/\ Unwrap(pb.len) = Total(resp.chunks)
            /\ \A i \in 1..Len(resp.chunks) : Len(resp.chunks[i]) > 0)
           => /\ idx < Len(resp.chunks) => pb.pos < Unwrap(pb.len)
              /\ idx = Len(resp.chunks) => pb.pos = Unwrap(pb.len)

C7_Witness ==
    /\ pc = "streaming"
    /\ pb.len = Some(Total(resp.chunks))
    /\ resp.chunks = << <<"y", "x">>, <<"x">> >>
    /\ idx = 1
    /\ pb.pos = 2

\* C8: a transport error after k chunks aborts the run with a non-zero exit;
\* the output file holds exactly the first k chunks, no descriptor is written
\* and the tool is not invoked.
StreamErrored ==
    /\ FetcherCreated
    /\ pc # "streaming"
    /\ resp.err
    /\ idx = Len(resp.chunks)

C8_MidStreamErrorAborts ==
    StreamErrored =>
        /\ Failed
        /\ IsFile(fs, out_path)
        /\ DataAt(fs, out_path) = Flatten(SubSeq(resp.chunks, 1, idx))
        /\ desc_writes = 0
        /\ \A w \in writes : w.by # "descriptor"
        /\ tool_calls = <<>>
        /\ phases = <<"resolve", "fetch">>

C8_Witness ==
    /\ StreamErrored
    /\ Failed
    /\ idx = 2
    /\ DataAt(fs, out_path) = <<"x", "y", "x">>

\* C9: the phases run in the order resolve, fetch, descriptor, tool, each at
\* most once; one GET at most; the descriptor is written only after the whole
\* body has been written and the file flushed; the tool is invoked at most once,
\* after a successful descriptor write, with the arguments -f <descriptor path>.
C9_PhaseOrder ==
    /\ IsPrefix(phases, <<"resolve", "fetch", "descriptor", "tool">>)
    /\ gets = (IF "fetch" \in Range(phases) THEN 1 ELSE 0)
    /\ desc_writes = (IF "descriptor" \in Range(phases) THEN 1 ELSE 0)
    /\ desc_writes = 1 => (flushed /\ idx = Len(resp.chunks) /\ ~resp.err /\ gets = 1)
    /\ Len(tool_calls) <= 1
    /\ Len(tool_calls) = 1 =>
         /\ phases = <<"resolve", "fetch", "descriptor", "tool">>
         /\ IsFile(fs, model_file)
         /\ DataAt(fs, model_file) = FromPrefix \o Display(out_path)
         /\ tool_calls[1].cmd.args
              = << <<"-f">>, Display(Join(args.directory, <<ModelFileName>>)) >>
         /\ IsSome(ollama_exec)
         /\ tool_calls[1].cmd.program = Display(Unwrap(ollama_exec))

C9_Witness ==
    /\ Succeeded
    /\ Len(tool_calls) = 1
    /\ tool_calls[1].outcome = "success"
    /\ Len(resp.chunks) = 2

\* C10: which returns the candidate of the first PATH directory, in order, whose
\* candidate is a regular file, and None when PATH is unset or no directory has one.
C10_WhichFirstRegularFile ==
    pc = "which_ret" =>
        LET dirs == IF IsNone(env_dirs) THEN <<>> ELSE Unwrap(env_dirs)
            cand(i) == Join(PathOf(dirs[i]), <<OllamaName>>)
            regular(i) == /\ Canon(cand(i)) \in DOMAIN fs
                          /\ fs[Canon(cand(i))].kind = "file"
            hits == {i \in 1..Len(dirs) : regular(i)}
        IN  IF hits = {} THEN ollama_exec = None
            ELSE \E i \in hits : /\ \A j \in hits : i <= j
                                 /\ ollama_exec = Some(cand(i))

C10_Witness ==
    /\ pc = "which_ret"
    /\ env_dirs = Some(<< <<"/", "b">>, <<"/", "o">> >>)
    /\ IsDir(fs, BinDir \o <<OllamaName>>)
    /\ IsFile(fs, OptDir \o <<OllamaName>>)
    /\ ollama_exec = Some(<<Root, <<"o">>, OllamaName>>)

====
